---- MODULE Spec2Model ----
(***************************************************************************)
(* The Mind: the load pipeline (useDatabaseSync, the mind store's          *)
(* loadFromDatabase / loadNearCamera, MindSpace's spatial pagination) and  *)
(* the activation store, as state machines.                                *)
(*                                                                         *)
(* Every await of the TypeScript code is a step boundary: a task's action  *)
(* is the return (or rejection) of the call it awaits, followed by the     *)
(* synchronous code up to the next await.                                  *)
(*                                                                         *)
(* Data abstraction.  A thought list is a record [named, filler]: the set  *)
(* of the ids the model tells apart and the number of further thoughts     *)
(* (unconnected, at the origin) that only count.  Positions are taken      *)
(* along the z axis, on which the camera starts (0,0,50).  Activation      *)
(* levels are in hundredths; getActivation returns an exact fraction.      *)
(* The app runs inside Tauri (isTauri() holds); the commands behind invoke *)
(* are modelled from their use.                                            *)
(*                                                                         *)
(* Spec is the load pipeline with camera frames and an external writer,    *)
(* SpecAdd the pipeline with the optimistic addThought / addConnection,    *)
(* SpecAct the activation store under a clock.  SpecPath is               *)
(* findReasoningPath reached through addThought, SpecThink the thinking    *)
(* store with its timers, SpecTimeline the timeline store (SpecTimelineLive*)
(* with the frame loop scheduled fairly), SpecAddTimeline the timeline     *)
(* entered over a snapshot that keeps changing, SpecOverlay the overlay    *)
(* stores over a loaded snapshot and SpecDream the dream store over a      *)
(* snapshot that polls reload.                                             *)
(***************************************************************************)
EXTENDS Integers, Sequences, FiniteSets, Bags, TLC

\* ------------------------------------------------------------- bounds
MaxTasks == 2
MaxPolls == 2
MaxMoves == 2
MaxFails == 2
MaxWrites == 1
MaxAdds == 1
TicksPerSecond == 2
MaxTime == 93000
MaxActs == 2
MaxCalls == 3
MaxConns == 4

\* -------------------------------------------------- program constants
SPATIAL_THRESHOLD == 500
DEFAULT_SPATIAL_RADIUS == 80
DEFAULT_SPATIAL_LIMIT == 300
SPATIAL_MOVE_THRESHOLD == 20
SPATIAL_RELOAD_COOLDOWN == 1
PollCenterZ == 50
InitialSpatialPos == 50
InitialCameraZ == 50
InitialMaxId == -1

\* ---------------------------------------------------------------- data
Abs(n) == IF n < 0 THEN -n ELSE n
Min(a, b) == IF a < b THEN a ELSE b
Max(a, b) == IF a < b THEN b ELSE a

DemoIds == {1, 2, 3, 4, 5}
NearId == 6
FarId == 7
UserIds == {NearId, FarId}
NewId == 8
NewIds == {NewId}
AllIds == DemoIds \cup UserIds \cup NewIds
FarZ == 120
CamPositions == {50, 200}

\* position_z of a thought row
PosZ(id) == IF id = FarId THEN FarZ ELSE 0

EmptyThoughts == [named |-> {}, filler |-> 0]

\* created_at of a row, createdAt of a thought, in milliseconds: the named
\* thoughts in the order of their ids, the unnamed rows before them
createdAt(id) == id * 1000
FillerCreatedAt == 500
CreatedTimes(ts) ==
  {createdAt(id) : id \in ts.named} \cup (IF ts.filler > 0 THEN {FillerCreatedAt} ELSE {})
ThoughtCount(ts) == Cardinality(ts.named) + ts.filler

\* strength of a connection, in hundredths
ConnS(i, f, t, s) == [id |-> i, fromThought |-> f, toThought |-> t, strength |-> s]
Strength(i) ==
  CASE i = "c1" -> 80
    [] i = "c2" -> 70
    [] i = "c3" -> 60
    [] i = "c4" -> 50
    [] OTHER -> 50
Conn(i, f, t) == ConnS(i, f, t, Strength(i))

demoThoughts == [named |-> DemoIds, filler |-> 0]
demoConnections == {Conn("c1", 1, 2), Conn("c2", 1, 3), Conn("c3", 2, 4), Conn("c4", 3, 5)}

\* the order in which loadFromDatabase seeds the demo rows
demoThoughtSeq == <<1, 2, 3, 4, 5>>
demoConnectionSeq == <<Conn("c1", 1, 2), Conn("c2", 1, 3), Conn("c3", 2, 4), Conn("c4", 3, 5)>>

UserConn == Conn("u1", NearId, FarId)
NewConn == Conn("u2", NearId, NewId)

\* ------------------------------------------------------------ variables
VARIABLES
  dbThoughts,        \* backing store: thoughts table
  dbConns,           \* backing store: connections table
  nWrites,           \* external writes so far (bounded)
  thoughts,          \* mind store
  connections,
  clusters,
  useSpatialLoading,
  totalThoughtCount,
  lastVersionRef,    \* useDatabaseSync
  tasks,             \* the async invocations in flight (checkForUpdates, loadNearCamera): a bag
  nPolls,            \* polls started so far (bounded)
  nMoves,            \* movement-triggered loads started so far (bounded)
  nFails,            \* failed backing-store calls so far (bounded)
  written,           \* the store fields the latest step set (none: {})
  lastWrite,         \* the kind of operation that wrote thoughts last
  lastIssue,         \* the issue number of the load that wrote thoughts last (none: 0)
  camZ,              \* camera.position
  lastSpatialPos,    \* MindSpace refs
  spatialCooldown,
  spatialLoadPending,
  persist,           \* add_thought / add_connection calls in flight
  nAdds,
  activations,       \* activation store
  now,               \* Date.now()
  origin,            \* per id: the activateNode call its record stems from
  nActs,
  activePath,        \* thinking store
  pathProgress,
  isThinking,
  synthesisId,
  thinkingStartTime,
  traversalSpeed,    \* nodes per second, in tenths
  nCalls,            \* calls of the user interface on the overlay stores so far (bounded)
  timers,            \* pending setInterval / setTimeout callbacks: a bag
  timelineActive,    \* timeline store (isActive)
  currentTime,       \* an exact fraction
  startTime,
  endTime,
  isPlaying,
  playbackSpeed,
  dreamActive,       \* dream store (isActive)
  dreamIntensity,    \* intensity
  lastSparkTime,
  activeSparkIds

dbVars == <<dbThoughts, dbConns, nWrites>>
storeVars == <<thoughts, connections, clusters, useSpatialLoading, totalThoughtCount>>
syncVars == <<lastVersionRef, tasks, nPolls, nMoves, nFails>>
ghostVars == <<written, lastWrite, lastIssue>>
NoSet == written' = {}
frameVars == <<camZ, lastSpatialPos, spatialCooldown, spatialLoadPending>>
addVars == <<persist, nAdds>>
actVars == <<activations, now, origin, nActs>>
thinkVars == <<activePath, pathProgress, isThinking, synthesisId, thinkingStartTime,
               traversalSpeed>>
timelineVars == <<timelineActive, currentTime, startTime, endTime, isPlaying, playbackSpeed>>
dreamVars == <<dreamActive, dreamIntensity, lastSparkTime, activeSparkIds>>
overlayVars == <<thinkVars, timers, timelineVars, dreamVars, nCalls>>
\* one more call of the user interface
Call == nCalls < MaxCalls /\ nCalls' = nCalls + 1
vars == <<dbVars, storeVars, syncVars, ghostVars, frameVars, addVars, actVars, overlayVars>>

\* ------------------------------------------- backing store (Tauri commands)
\* The Rust side: max rowid of each table.  Rows are numbered 1..n.
get_db_version ==
  [thought_max_id |-> ThoughtCount(dbThoughts), connection_max_id |-> Cardinality(dbConns)]

get_thought_count == ThoughtCount(dbThoughts)
get_all_thoughts == dbThoughts
get_all_connections == dbConns

\* clusters are derived by the backing store from its thoughts
get_all_clusters == IF ThoughtCount(dbThoughts) > 0 THEN {"k1"} ELSE {}

NearThoughts(z, radius) ==
  [named |-> {id \in dbThoughts.named : Abs(PosZ(id) - z) <= radius},
   filler |-> IF Abs(0 - z) <= radius THEN dbThoughts.filler ELSE 0]

\* the possible results: the thoughts within radius, cut to limit rows
get_thoughts_near(z, radius, limit) ==
  LET near == NearThoughts(z, radius) IN
    IF ThoughtCount(near) <= limit
      THEN {near}
      ELSE {[named |-> N, filler |-> limit - Cardinality(N)] :
              N \in {M \in SUBSET near.named :
                       /\ Cardinality(M) <= limit
                       /\ limit - Cardinality(M) <= near.filler}}

\* connections with both endpoints among ids
get_connections_for_thoughts(ids) ==
  {c \in dbConns : c.fromThought \in ids /\ c.toThought \in ids}

\* INSERT of a thought row / a connection row
add_thought(id) == dbThoughts' = [dbThoughts EXCEPT !.named = @ \cup {id}]
add_connection(c) == dbConns' = dbConns \cup {c}

\* -------------------------------------------------------- conversions
\* rustToThought / rustToConnection copy every field; of a thought the model
\* keeps the id, of a connection the id, the two endpoints and the strength.
rustToThought(rust) == rust
rustToConnection(rust) ==
  [id |-> rust.id, fromThought |-> rust.fromThought, toThought |-> rust.toThought,
   strength |-> rust.strength]
rustToCluster(rust) == rust

\* the categories of the type ThoughtCategory
ThoughtCategory == {"work", "personal", "technical", "creative", "other"}

\* the row of a thought as the backing store returns it: importance in
\* hundredths.  The rows of the demo thoughts are those the store seeds; the
\* rows of another writer hold an importance above 1, one below 0 and a
\* category outside the type.
rowCategory(id) ==
  CASE id = 1 -> "creative"
    [] id \in {2, 3} -> "technical"
    [] id = 4 -> "work"
    [] id = 5 -> "personal"
    [] id = FarId -> "research"
    [] OTHER -> "other"
rowImportance(id) ==
  CASE id \in DemoIds -> 100 - id * 10
    [] id = NearId -> 150
    [] id = FarId -> -20
    [] OTHER -> 50
RustThought(id) ==
  [id |-> id, category |-> rowCategory(id), importance |-> rowImportance(id),
   position_z |-> PosZ(id), created_at |-> createdAt(id)]

\* rustToThought with the fields of the thought it returns
rustToThoughtFields(rust) ==
  [id |-> rustToThought(rust.id), category |-> rust.category, importance |-> rust.importance,
   position |-> [z |-> rust.position_z], createdAt |-> rust.created_at]

\* the named thoughts of a snapshot that a load has mapped from rows ts
LoadedThoughts(ts) == {rustToThoughtFields(RustThought(id)) : id \in ts.named}

MapThoughts(rustThoughts) == [named |-> {rustToThought(id) : id \in rustThoughts.named}, filler |-> rustThoughts.filler]
MapConnections(rustConnections) == {rustToConnection(c) : c \in rustConnections}
MapClusters(rustClusters) == {rustToCluster(k) : k \in rustClusters}

\* --------------------------------------------------- mind store: set()
Fields == {"thoughts", "connections", "clusters", "useSpatialLoading", "totalThoughtCount"}

\* set({ useSpatialLoading: true, totalThoughtCount: totalCount })
SetSpatialMode(total) ==
  /\ useSpatialLoading' = TRUE
  /\ totalThoughtCount' = total
  /\ UNCHANGED <<thoughts, connections, clusters, lastWrite, lastIssue>>
  /\ written' = {"useSpatialLoading", "totalThoughtCount"}

\* set({ thoughts, connections, clusters, useSpatialLoading: false, totalThoughtCount: totalCount })
SetFull(lt, lc, lcl, total) ==
  /\ thoughts' = lt
  /\ connections' = lc
  /\ clusters' = lcl
  /\ useSpatialLoading' = FALSE
  /\ totalThoughtCount' = total
  /\ written' = Fields
  /\ lastWrite' = "full"

\* set({ thoughts: demoThoughts, connections: demoConnections })
SetDemo(kind) ==
  /\ thoughts' = demoThoughts
  /\ connections' = demoConnections
  /\ UNCHANGED <<clusters, useSpatialLoading, totalThoughtCount>>
  /\ written' = {"thoughts", "connections"}
  /\ lastWrite' = kind

\* set({ thoughts, connections }) of loadNearCamera
SetWindowed(lt, lc) ==
  /\ thoughts' = lt
  /\ connections' = lc
  /\ UNCHANGED <<clusters, useSpatialLoading, totalThoughtCount>>
  /\ written' = {"thoughts", "connections"}
  /\ lastWrite' = "windowed"

\* set({ thoughts, connections, useSpatialLoading: false }) of loadNearCamera's catch
SetFallback(lt, lc) ==
  /\ thoughts' = lt
  /\ connections' = lc
  /\ useSpatialLoading' = FALSE
  /\ UNCHANGED <<clusters, totalThoughtCount>>
  /\ written' = {"thoughts", "connections", "useSpatialLoading"}
  /\ lastWrite' = "fallback"

UnchangedStore == UNCHANGED <<storeVars, lastWrite, lastIssue>> /\ NoSet

\* ------------------------------------------------------------- tasks
Version(t, c) == [thought_max_id |-> t, connection_max_id |-> c]

\* An invocation: who made it (kind), the await it stands at (pc), whether it
\* runs the catch of checkForUpdates (inCatch), the arguments and locals of the
\* load it runs; accepted, sets and failed record what it has done so far.
\* issued numbers the loads in the order of their calls: the number of
\* invocations started when the load is called
NewTask(kind) ==
  [kind |-> kind, pc |-> "ver", inCatch |-> FALSE, issued |-> nPolls + nMoves + 1,
   z |-> 0, radius |-> 0, limit |-> 0,
   lt |-> EmptyThoughts, lc |-> {}, totalCount |-> 0, i |-> 0,
   accepted |-> FALSE, sets |-> 0, failed |-> FALSE]

InFlight == BagToSet(tasks)
NumInFlight == BagCardinality(tasks)
CanStart == NumInFlight < MaxTasks

Started(T) == tasks (+) SetToBag({T})
Ended(T) == tasks (-) SetToBag({T})
Moved(T, T1) == (tasks (-) SetToBag({T})) (+) SetToBag({T1})

\* a backing-store call may fail, a bounded number of times
Outcome(ok) == ok \/ nFails < MaxFails
CountFail(ok) == nFails' = IF ok THEN nFails ELSE nFails + 1

\* the call loadFromDatabase(): runs to its first await, get_thought_count
CallLoadFromDatabase(task) ==
  [task EXCEPT !.pc = "count", !.z = 0, !.radius = 0, !.limit = 0,
               !.lt = EmptyThoughts, !.lc = {}]

\* the call loadNearCamera(x, y, z) with the default radius and limit: runs to
\* its first await, get_thoughts_near
CallLoadNearCamera(task, z) ==
  [task EXCEPT !.pc = "near", !.z = z,
               !.radius = DEFAULT_SPATIAL_RADIUS, !.limit = DEFAULT_SPATIAL_LIMIT]

\* ------------------------------------------------- activation store
glowDuration == 30000
decayDuration == 60000
ActivateStagger == 200

NoActivation == [present |-> FALSE, level |-> 0, lastActivatedAt |-> 0, decayStartsAt |-> 0]
NoOrigin == [set |-> FALSE, t0 |-> 0, x |-> 0]

\* the record activateNode / activateNodes store for a thought at time t
NewActivation(intensity, t) ==
  [present |-> TRUE, level |-> Min(100, intensity), lastActivatedAt |-> t,
   decayStartsAt |-> t + glowDuration]

\* a variant that adds the intensity to the level the record already has
activateNode_Accumulating(acts, thoughtId, intensity) ==
  [acts EXCEPT ![thoughtId] =
     [present |-> TRUE, level |-> Min(100, @.level + intensity),
      lastActivatedAt |-> now, decayStartsAt |-> now + glowDuration]]

\* activateNode(thoughtId, intensity) on the table acts
activateNode(acts, thoughtId, intensity) ==
  [acts EXCEPT ![thoughtId] = NewActivation(intensity, now)]

\* activateNodes(thoughtIds, intensity): thoughtIds is a sequence, each record
\* staggered by its index
RECURSIVE activateNodesFrom(_, _, _, _)
activateNodesFrom(acts, thoughtIds, intensity, index) ==
  IF index >= Len(thoughtIds) THEN acts
  ELSE activateNodesFrom(
         [acts EXCEPT ![thoughtIds[index + 1]] =
            NewActivation(intensity, now + index * ActivateStagger)],
         thoughtIds, intensity, index + 1)

activateNodes(acts, thoughtIds, intensity) == activateNodesFrom(acts, thoughtIds, intensity, 0)

SeqRange(q) == {q[k] : k \in 1..Len(q)}
\* the orders in which the elements of a set may stand in an array
Orders(S) == {q \in [1..Cardinality(S) -> S] : SeqRange(q) = S}

\* a level as an exact fraction in lowest terms
RECURSIVE GCD(_, _)
GCD(a, b) == IF b = 0 THEN a ELSE GCD(b, a % b)
Frac(n, d) == LET g == GCD(n, d) IN [num |-> n \div g, den |-> d \div g]
FracLeq(v, w) == v.num * w.den <= w.num * v.den

getActivation_Linear(thoughtId) ==
  LET activation == activations[thoughtId] IN
    IF ~activation.present THEN Frac(0, 1)
    ELSE IF now < activation.decayStartsAt THEN Frac(activation.level, 100)
    ELSE LET e == Min(now - activation.decayStartsAt, decayDuration)
         IN Frac(activation.level * ((decayDuration - e) \div 1000), 100 * (decayDuration \div 1000))

\* getActivation on a table in which the record of the thought is activation
ValueOf(activation) ==
  IF ~activation.present THEN Frac(0, 1)
  ELSE IF now < activation.decayStartsAt THEN Frac(activation.level, 100)
  ELSE LET decayElapsed == now - activation.decayStartsAt
           e == Min(decayElapsed, decayDuration)
           g == GCD(e, decayDuration)
           a == e \div g
           b == decayDuration \div g
       IN Frac(activation.level * (b * b - a * a), 100 * b * b)

\* getActivation(thoughtId): level in the glow period, then
\* level * (1 - Math.min(1, decayElapsed / decayDuration) ^ 2)
getActivation(thoughtId) ==
  LET activation == activations[thoughtId] IN
    IF ~activation.present THEN Frac(0, 1)
    ELSE IF now < activation.decayStartsAt THEN Frac(activation.level, 100)
    ELSE LET decayElapsed == now - activation.decayStartsAt
             e == Min(decayElapsed, decayDuration)
             g == GCD(e, decayDuration)
             a == e \div g
             b == decayDuration \div g
         IN Frac(activation.level * (b * b - a * a), 100 * b * b)

\* the thoughts the activation actions are tried on, the intensities and the
\* camera distances they are tried with, the steps of the clock
ActIds == {1, 2}
Intensities == {40, 100}
Distances == {0, 10, 30}
ClockSteps == {29000, 30000, 31000}

\* a caller (a spark of the dream store, a recalled thought) activates a node
ActivateNode(thoughtId, intensity) ==
  /\ nActs < MaxActs
  /\ nActs' = nActs + 1
  /\ activations' = activateNode(activations, thoughtId, intensity)
  /\ origin' = [origin EXCEPT ![thoughtId] = [set |-> TRUE, t0 |-> now, x |-> intensity]]
  /\ UNCHANGED now
  /\ UNCHANGED <<dbVars, storeVars, syncVars, lastWrite, lastIssue, frameVars, addVars, overlayVars>> /\ NoSet

\* a caller activates both nodes, in this order
ActivateNodes(thoughtIds, intensity) ==
  /\ nActs < MaxActs
  /\ nActs' = nActs + 1
  /\ activations' = activateNodes(activations, thoughtIds, intensity)
  /\ origin' = [k \in AllIds |-> IF k \in SeqRange(thoughtIds) THEN NoOrigin ELSE origin[k]]
  /\ UNCHANGED now
  /\ UNCHANGED <<dbVars, storeVars, syncVars, lastWrite, lastIssue, frameVars, addVars, overlayVars>> /\ NoSet

\* (1 - distance / maxProximityDistance) * proximityBoost, in hundredths
maxProximityDistance == 20
proximityBoost == 30
ProximityDecay == 2000
proximityLevel(distance) == ((maxProximityDistance - distance) * proximityBoost) \div maxProximityDistance

\* the table setProximityActivation(thoughtId, distance) leaves of acts
setProximityActivation(acts, thoughtId, distance) ==
  LET existing == acts[thoughtId] IN
    IF distance < maxProximityDistance
        /\ (~existing.present \/ existing.level < proximityLevel(distance))
      THEN [acts EXCEPT ![thoughtId] =
              [present |-> TRUE,
               level |-> Max(IF existing.present THEN existing.level ELSE 0, proximityLevel(distance)),
               lastActivatedAt |-> IF existing.present /\ existing.lastActivatedAt # 0
                                     THEN existing.lastActivatedAt ELSE now,
               decayStartsAt |-> now + ProximityDecay]]
      ELSE acts

\* setProximityActivation(thoughtId, distance)
SetProximityActivation(thoughtId, distance) ==
  LET existing == activations[thoughtId] IN
  /\ nActs < MaxActs
  /\ nActs' = nActs + 1
  /\ activations' = setProximityActivation(activations, thoughtId, distance)
  /\ IF distance < maxProximityDistance
        /\ (~existing.present \/ existing.level < proximityLevel(distance))
       THEN origin' = [origin EXCEPT ![thoughtId] = NoOrigin]
       ELSE UNCHANGED origin
  /\ UNCHANGED now
  /\ UNCHANGED <<dbVars, storeVars, syncVars, lastWrite, lastIssue, frameVars, addVars, overlayVars>> /\ NoSet

\* some record of acts is past its decay
needsCleanup(acts) ==
  \E id \in AllIds : acts[id].present /\ now - acts[id].decayStartsAt > decayDuration

\* the table tick() leaves of acts: once some record is past its decay, the
\* records not yet fully decayed are kept
tick(acts) ==
  IF needsCleanup(acts)
    THEN [id \in AllIds |->
            IF acts[id].present /\ now - acts[id].decayStartsAt < decayDuration
              THEN acts[id] ELSE NoActivation]
    ELSE acts

\* tick() when it sets the table
Tick ==
  /\ needsCleanup(activations)
  /\ activations' = tick(activations)
  /\ UNCHANGED <<now, origin, nActs>>
  /\ UNCHANGED <<dbVars, storeVars, syncVars, lastWrite, lastIssue, frameVars, addVars, overlayVars>> /\ NoSet

\* Date.now() advances, to no later than the next pending callback is due
Advance(d) ==
  /\ now + d <= MaxTime
  /\ \A t \in BagToSet(timers) : t.due >= now + d
  /\ now' = now + d
  /\ UNCHANGED <<activations, origin, nActs>>
  /\ UNCHANGED <<dbVars, storeVars, syncVars, lastWrite, lastIssue, frameVars, addVars, overlayVars>> /\ NoSet


\* --------------------------------------------------- thinking store
SettleDelay == 2000
DefaultTraversalSpeed == 20
MinTraversalSpeed == 5
MaxTraversalSpeed == 100
NoThought == 0
NullTime == -1

\* a pending callback: the advance interval of a startThinking call, the settle
\* timeout it creates at the end of its path, a spark timeout of the dream
\* tick.  id is the thought a spark lights; x is, for a spark, whether the
\* dream was a nightmare when it was scheduled and, for the other two, the
\* Date.now() of the startThinking call they stem from.
Timer(kind, due, period, id, x) ==
  [kind |-> kind, due |-> due, period |-> period, id |-> id, x |-> x]
Pending == BagToSet(timers)
Set(t) == timers (+) SetToBag({t})
Cleared(t) == timers (-) SetToBag({t})

\* 1000 / traversalSpeed
AdvancePeriod == 10000 \div traversalSpeed

\* startThinking(pathIds, synthesisId): the fields it sets and the interval
\* it creates
\* a startThinking that leaves the cursor where it is
startThinking_KeepingCursor(pathIds, synthesis) ==
  /\ activePath' = pathIds
  /\ UNCHANGED pathProgress
  /\ isThinking' = TRUE
  /\ synthesisId' = synthesis
  /\ thinkingStartTime' = now
  /\ timers' = Set(Timer("advance", now + AdvancePeriod, AdvancePeriod, NoThought, now))
  /\ UNCHANGED traversalSpeed

startThinking(pathIds, synthesis) ==
  /\ activePath' = pathIds
  /\ pathProgress' = 0
  /\ isThinking' = TRUE
  /\ synthesisId' = synthesis
  /\ thinkingStartTime' = now
  /\ timers' = Set(Timer("advance", now + AdvancePeriod, AdvancePeriod, NoThought, now))
  /\ UNCHANGED traversalSpeed

\* the paths and speeds the user interface starts a traversal with
ThinkPaths == {<<1, 2, 3>>, <<2, 1>>, <<1, 2, 3, 4, 5, 6, 7>>}
Speeds == {2, 10}

\* triggerThinkingPath(pathIds, synthesisId)
StartThinking(pathIds, synthesis) ==
  /\ Call
  /\ startThinking(pathIds, synthesis)
  /\ UNCHANGED <<dbVars, storeVars, syncVars, lastWrite, lastIssue, frameVars, addVars, actVars>> /\ NoSet
  /\ UNCHANGED <<timelineVars, dreamVars>>

\* the callback of the advance interval t runs
AdvanceFires(t) ==
  /\ t \in Pending /\ t.kind = "advance" /\ t.due = now
  /\ IF ~isThinking
       THEN /\ timers' = Cleared(t)
            /\ UNCHANGED pathProgress
       ELSE LET nextProgress == pathProgress + 1 IN
            IF nextProgress >= Len(activePath)
              THEN /\ timers' = Cleared(t) (+)
                        SetToBag({Timer("settle", now + SettleDelay, 0, NoThought, t.x)})
                   /\ UNCHANGED pathProgress
              ELSE /\ pathProgress' = nextProgress
                   /\ timers' = Cleared(t) (+) SetToBag({[t EXCEPT !.due = now + t.period]})
  /\ UNCHANGED <<activePath, isThinking, synthesisId, thinkingStartTime, traversalSpeed, nCalls>>
  /\ UNCHANGED <<dbVars, storeVars, syncVars, lastWrite, lastIssue, frameVars, addVars, actVars>> /\ NoSet
  /\ UNCHANGED <<timelineVars, dreamVars>>

\* the callback of the settle timeout t runs
SettleFires(t) ==
  /\ t \in Pending /\ t.kind = "settle" /\ t.due = now
  /\ isThinking' = FALSE
  /\ timers' = Cleared(t)
  /\ UNCHANGED <<activePath, pathProgress, synthesisId, thinkingStartTime, traversalSpeed, nCalls>>
  /\ UNCHANGED <<dbVars, storeVars, syncVars, lastWrite, lastIssue, frameVars, addVars, actVars>> /\ NoSet
  /\ UNCHANGED <<timelineVars, dreamVars>>

\* advancePath()
AdvancePath ==
  /\ Call
  /\ IF pathProgress < Len(activePath) - 1
       THEN pathProgress' = pathProgress + 1
       ELSE UNCHANGED pathProgress
  /\ UNCHANGED <<activePath, isThinking, synthesisId, thinkingStartTime, traversalSpeed, timers>>
  /\ UNCHANGED <<dbVars, storeVars, syncVars, lastWrite, lastIssue, frameVars, addVars, actVars>> /\ NoSet
  /\ UNCHANGED <<timelineVars, dreamVars>>

\* stopThinking()
StopThinking ==
  /\ isThinking' = FALSE
  /\ activePath' = <<>>
  /\ pathProgress' = 0
  /\ synthesisId' = NoThought
  /\ thinkingStartTime' = NullTime
  /\ Call
  /\ UNCHANGED <<traversalSpeed, timers>>
  /\ UNCHANGED <<dbVars, storeVars, syncVars, lastWrite, lastIssue, frameVars, addVars, actVars>> /\ NoSet
  /\ UNCHANGED <<timelineVars, dreamVars>>

\* setTraversalSpeed(speed)
SetTraversalSpeed(speed) ==
  /\ traversalSpeed' = Max(MinTraversalSpeed, Min(MaxTraversalSpeed, speed))
  /\ Call
  /\ UNCHANGED <<activePath, pathProgress, isThinking, synthesisId, thinkingStartTime, timers>>
  /\ UNCHANGED <<dbVars, storeVars, syncVars, lastWrite, lastIssue, frameVars, addVars, actVars>> /\ NoSet
  /\ UNCHANGED <<timelineVars, dreamVars>>

\* indexOf: the first position of thoughtId in q, from 0; -1 when absent
indexOf(q, thoughtId) ==
  IF \E k \in 1..Len(q) : q[k] = thoughtId
    THEN (CHOOSE k \in 1..Len(q) : q[k] = thoughtId /\ \A j \in 1..(k - 1) : q[j] # thoughtId) - 1
    ELSE -1

\* getActivation(thoughtId) without the branch for the synthesis thought
getActivationThinking_ByPositionOnly(thoughtId) ==
  LET index == indexOf(activePath, thoughtId) IN
    IF ~isThinking /\ Len(activePath) = 0 THEN 0
    ELSE IF index = -1 THEN 0
    ELSE IF index <= pathProgress
      THEN LET distanceFromHead == pathProgress - index
           IN Max(40, 100 - distanceFromHead * 15)
    ELSE 15

\* getActivation(thoughtId) of the thinking store, in hundredths
getActivationThinking(thoughtId) ==
  LET index == indexOf(activePath, thoughtId) IN
    IF ~isThinking /\ Len(activePath) = 0 THEN 0
    ELSE IF index = -1 THEN 0
    ELSE IF thoughtId = synthesisId
      THEN (IF pathProgress >= Len(activePath) - 1 THEN 100 ELSE 30)
    ELSE IF index <= pathProgress
      THEN LET distanceFromHead == pathProgress - index
           IN Max(40, 100 - distanceFromHead * 15)
    ELSE 15

\* --------------------------------------------------- timeline store
DefaultPlaybackSpeed == 100
MinPlaybackSpeed == 1
MaxPlaybackSpeed == 1000

\* exact fractions: sum, product with an integer, order
FracOf(n) == [num |-> n, den |-> 1]
FracPlus(v, n) == Frac(v.num + n * v.den, v.den)
FracTimes(v, n) == Frac(v.num * n, v.den)
FracLess(v, w) == v.num * w.den < w.num * v.den
FracMin(v, w) == IF FracLess(w, v) THEN w ELSE v
FracMax(v, w) == IF FracLess(v, w) THEN w ELSE v

SetMin(S) == CHOOSE x \in S : \A y \in S : x <= y
SetMax(S) == CHOOSE x \in S : \A y \in S : y <= x

\* a call of the user interface on the timeline store: the other stores stay
TimelineCall ==
  /\ Call
  /\ UNCHANGED <<dbVars, storeVars, syncVars, lastWrite, lastIssue, frameVars, addVars, actVars>> /\ NoSet
  /\ UNCHANGED <<thinkVars, timers, dreamVars>>

\* enterTimeline(thoughts): times holds the createdAt of the thoughts
EnterTimeline(times) ==
  /\ times # {}
  /\ timelineActive' = TRUE
  /\ startTime' = SetMin(times)
  /\ endTime' = SetMax(times \cup {now})
  /\ currentTime' = FracOf(SetMin(times))
  /\ isPlaying' = FALSE
  /\ UNCHANGED playbackSpeed
  /\ TimelineCall

\* exitTimeline()
ExitTimeline ==
  /\ timelineActive' = FALSE
  /\ isPlaying' = FALSE
  /\ currentTime' = FracOf(now)
  /\ UNCHANGED <<startTime, endTime, playbackSpeed>>
  /\ TimelineCall

\* setCurrentTime(time)
SetCurrentTime(time) ==
  /\ currentTime' = FracOf(Max(startTime, Min(endTime, time)))
  /\ UNCHANGED <<timelineActive, startTime, endTime, isPlaying, playbackSpeed>>
  /\ TimelineCall

\* setPlaybackSpeed(speed)
SetPlaybackSpeed(speed) ==
  /\ playbackSpeed' = Max(MinPlaybackSpeed, Min(MaxPlaybackSpeed, speed))
  /\ UNCHANGED <<timelineActive, currentTime, startTime, endTime, isPlaying>>
  /\ TimelineCall

\* play()
Play ==
  /\ isPlaying' = TRUE
  /\ UNCHANGED <<timelineActive, currentTime, startTime, endTime, playbackSpeed>>
  /\ TimelineCall

\* pause()
Pause ==
  /\ isPlaying' = FALSE
  /\ UNCHANGED <<timelineActive, currentTime, startTime, endTime, playbackSpeed>>
  /\ TimelineCall

\* togglePlayback()
TogglePlayback ==
  /\ IF ~isPlaying /\ ~FracLess(currentTime, FracOf(endTime))
       THEN currentTime' = FracOf(startTime) /\ isPlaying' = TRUE
       ELSE isPlaying' = ~isPlaying /\ UNCHANGED currentTime
  /\ UNCHANGED <<timelineActive, startTime, endTime, playbackSpeed>>
  /\ TimelineCall

\* a tick that does not clamp at the end time
tickTimeline_Unclamped(delta) ==
  IF ~timelineActive \/ ~isPlaying THEN UNCHANGED timelineVars
  ELSE LET advance == delta * playbackSpeed
           newTime == FracPlus(currentTime, advance)
       IN /\ currentTime' = newTime
          /\ isPlaying' = FracLess(newTime, FracOf(endTime))
          /\ UNCHANGED <<timelineActive, startTime, endTime, playbackSpeed>>

\* a tick that clamps at the end time and plays on
tickTimeline_PlayingOn(delta) ==
  IF ~timelineActive \/ ~isPlaying THEN UNCHANGED timelineVars
  ELSE LET advance == delta * playbackSpeed
           newTime == FracPlus(currentTime, advance)
       IN /\ currentTime' = FracMin(newTime, FracOf(endTime))
          /\ UNCHANGED <<timelineActive, isPlaying, startTime, endTime, playbackSpeed>>

\* tick(delta) of the timeline store on its own fields, delta in milliseconds
tickTimeline(delta) ==
  IF ~timelineActive \/ ~isPlaying THEN UNCHANGED timelineVars
  ELSE LET advance == delta * playbackSpeed
           newTime == FracPlus(currentTime, advance)
       IN /\ IF ~FracLess(newTime, FracOf(endTime))
               THEN currentTime' = FracOf(endTime) /\ isPlaying' = FALSE
               ELSE currentTime' = newTime /\ UNCHANGED isPlaying
          /\ UNCHANGED <<timelineActive, startTime, endTime, playbackSpeed>>

\* getProgress() when the current time is t
ProgressAt(t) ==
  IF endTime = startTime THEN FracOf(1)
  ELSE Frac(t.num - startTime * t.den, t.den * (endTime - startTime))

\* getProgress()
getProgress == ProgressAt(currentTime)

\* a variant that scales the end time alone
setProgress_FromZero(progress) ==
  LET clampedProgress == FracMax(FracOf(0), FracMin(FracOf(1), progress))
  IN Frac(endTime * clampedProgress.num, clampedProgress.den)

\* setProgress(progress): the current time it sets
setProgress(progress) ==
  LET clampedProgress == FracMax(FracOf(0), FracMin(FracOf(1), progress))
  IN Frac(startTime * clampedProgress.den + (endTime - startTime) * clampedProgress.num,
          clampedProgress.den)

SetProgress(progress) ==
  /\ currentTime' = setProgress(progress)
  /\ UNCHANGED <<timelineActive, startTime, endTime, isPlaying, playbackSpeed>>
  /\ TimelineCall

\* the creation times of the thoughts a timeline is entered with, the
\* positions of the slider and the presets, the times and speeds set
TimelineInputs == {{1000, 5000}, {3000}, {6000}}
Progresses == {Frac(0, 1), Frac(1, 4), Frac(1, 3), Frac(1, 2), Frac(1, 1), Frac(3, 2)}
TimesSet == {0, 3000, 9000}
PlaybackSpeeds == {0, 100, 2000}
FrameDelta == 1000 \div TicksPerSecond

\* ------------------------------------------------------ dream store
DreamIntensities == {"calm", "vivid", "nightmare"}
SparkStagger == 150

\* INTENSITY_PRESETS: the fields of the store that follow its intensity
sparkInterval ==
  CASE dreamIntensity = "calm" -> 5000
    [] dreamIntensity = "vivid" -> 2500
    [] dreamIntensity = "nightmare" -> 800
sparkCount ==
  CASE dreamIntensity = "calm" -> 1
    [] dreamIntensity = "vivid" -> 2
    [] dreamIntensity = "nightmare" -> 4

\* 0.7 + Math.random() * 0.3 and 0.4 + Math.random() * 0.4: the ends of the ranges
NightmareIntensities == {70, 99}
ModerateIntensities == {40, 79}

\* a variant in which a call on the dream store empties the snapshot
DreamCall_ClearingSnapshot ==
  /\ Call
  /\ thoughts' = EmptyThoughts
  /\ written' = {"thoughts"}
  /\ UNCHANGED <<connections, clusters, useSpatialLoading, totalThoughtCount>>
  /\ UNCHANGED <<dbVars, syncVars, lastWrite, lastIssue, frameVars, addVars, actVars>>
  /\ UNCHANGED <<thinkVars, timers, timelineVars>>

\* a call of the user interface on the dream store: the other stores stay
DreamCall ==
  /\ Call
  /\ UNCHANGED <<dbVars, storeVars, syncVars, lastWrite, lastIssue, frameVars, addVars, actVars>> /\ NoSet
  /\ UNCHANGED <<thinkVars, timers, timelineVars>>

\* enterDream(intensity)
EnterDream(i) ==
  /\ dreamActive' = TRUE
  /\ dreamIntensity' = i
  /\ lastSparkTime' = now
  /\ activeSparkIds' = <<>>
  /\ DreamCall

\* exitDream()
ExitDream ==
  /\ dreamActive' = FALSE
  /\ activeSparkIds' = <<>>
  /\ UNCHANGED <<dreamIntensity, lastSparkTime>>
  /\ DreamCall

\* setIntensity(intensity)
SetIntensity(i) ==
  /\ dreamIntensity' = i
  /\ UNCHANGED <<dreamActive, lastSparkTime, activeSparkIds>>
  /\ DreamCall

\* shuffled.slice(0, Math.min(sparkCount, shuffled.length)): any n distinct ids
Picks(ids, n) ==
  {q \in [1..Min(n, Cardinality(ids)) -> ids] : \A j, k \in DOMAIN q : q[j] = q[k] => j = k}

\* the spark timeouts of toSpark from position k on, added to the bag b
RECURSIVE SparksFrom(_, _, _)
SparksFrom(b, toSpark, k) ==
  IF k > Len(toSpark) THEN b
  ELSE SparksFrom(b (+) SetToBag({Timer("spark", now + (k - 1) * SparkStagger, 0, toSpark[k],
                                        IF dreamIntensity = "nightmare" THEN 1 ELSE 0)}),
                  toSpark, k + 1)

\* tick(thoughtIds, delta) of the dream store on its own fields and the
\* pending callbacks
tickDream(thoughtIds) ==
  IF ~dreamActive \/ thoughtIds = {} \/ now - lastSparkTime < sparkInterval
    THEN UNCHANGED <<dreamVars, timers>>
    ELSE \E toSpark \in Picks(thoughtIds, sparkCount) :
           /\ timers' = SparksFrom(timers, toSpark, 1)
           /\ lastSparkTime' = now
           /\ activeSparkIds' = toSpark
           /\ UNCHANGED <<dreamActive, dreamIntensity>>

\* the callback of the spark timeout t runs
SparkFires(t, x) ==
  /\ t \in Pending /\ t.kind = "spark" /\ t.due = now
  /\ x \in (IF t.x = 1 THEN NightmareIntensities ELSE ModerateIntensities)
  /\ timers' = Cleared(t)
  /\ activations' = activateNode(activations, t.id, x)
  /\ origin' = [origin EXCEPT ![t.id] = [set |-> TRUE, t0 |-> now, x |-> x]]
  /\ UNCHANGED <<now, nActs>>
  /\ UNCHANGED <<dbVars, storeVars, syncVars, lastWrite, lastIssue, frameVars, addVars>> /\ NoSet
  /\ UNCHANGED <<thinkVars, timelineVars, dreamVars, nCalls>>

\* ------------------------------------------------ useDatabaseSync
TokenChanged_Greater(version, prev) ==
  \/ version.thought_max_id > prev.thought_max_id
  \/ version.connection_max_id > prev.connection_max_id

\* version.thought_max_id !== prev.thought_max_id || version.connection_max_id !== prev.connection_max_id
TokenChanged(version, prev) ==
  \/ version.thought_max_id # prev.thought_max_id
  \/ version.connection_max_id # prev.connection_max_id

\* spatialRef.current is assigned from the store on every render
spatialRef == useSpatialLoading

\* setInterval(checkForUpdates, intervalMs) and the initial sync: an invocation
\* of checkForUpdates runs to its first await, get_db_version
StartPoll ==
  /\ CanStart /\ nPolls < MaxPolls
  /\ tasks' = Started(NewTask("poll"))
  /\ nPolls' = nPolls + 1
  /\ UNCHANGED <<lastVersionRef, nMoves, nFails>>
  /\ UnchangedStore
  /\ UNCHANGED <<dbVars, frameVars, addVars, actVars, overlayVars>>

\* get_db_version returns or fails
VersionStep(T, ok) ==
  /\ T \in InFlight /\ T.pc = "ver"
  /\ Outcome(ok) /\ CountFail(ok)
  /\ IF ok
       THEN LET version == get_db_version
                prev == lastVersionRef
            IN IF TokenChanged(version, prev)
                 THEN /\ lastVersionRef' = version
                      /\ tasks' = Moved(T,
                            IF spatialRef
                              THEN CallLoadNearCamera([T EXCEPT !.accepted = TRUE, !.issued = nPolls + nMoves], PollCenterZ)
                              ELSE CallLoadFromDatabase([T EXCEPT !.accepted = TRUE, !.issued = nPolls + nMoves]))
                 ELSE /\ tasks' = Ended(T)
                      /\ UNCHANGED lastVersionRef
       ELSE \* catch (err): loadFromDatabase()
            /\ tasks' = Moved(T, CallLoadFromDatabase([T EXCEPT !.failed = TRUE, !.inCatch = TRUE, !.issued = nPolls + nMoves]))
            /\ UNCHANGED lastVersionRef
  /\ UNCHANGED <<nPolls, nMoves>>
  /\ UnchangedStore
  /\ UNCHANGED <<dbVars, frameVars, addVars, actVars, overlayVars>>

\* ------------------------------------------------ loadFromDatabase
shouldUseSpatial_AtThreshold(totalCount) == totalCount >= SPATIAL_THRESHOLD

\* totalCount > SPATIAL_THRESHOLD
shouldUseSpatial(totalCount) == totalCount > SPATIAL_THRESHOLD

\* get_thought_count returns or fails (then totalCount stays 0)
CountStep(T, ok) ==
  LET totalCount == IF ok THEN get_thought_count ELSE 0
      T1 == [T EXCEPT !.totalCount = totalCount, !.failed = @ \/ ~ok]
  IN
  /\ T \in InFlight /\ T.pc = "count"
  /\ Outcome(ok) /\ CountFail(ok)
  /\ IF shouldUseSpatial(totalCount)
       THEN /\ SetSpatialMode(totalCount)
            /\ tasks' = Ended(T)
       ELSE /\ tasks' = Moved(T, [T1 EXCEPT !.pc = "allT"])
            /\ UnchangedStore
  /\ UNCHANGED <<lastVersionRef, nPolls, nMoves>>
  /\ UNCHANGED <<dbVars, frameVars, addVars, actVars, overlayVars>>

\* the catch of loadFromDatabase: fall back to demo data
LoadFailed(T) ==
  /\ SetDemo("demo") /\ lastIssue' = T.issued
  /\ tasks' = Ended(T)

\* get_all_thoughts returns or fails
AllThoughtsStep(T, ok) ==
  /\ T \in InFlight /\ T.pc = "allT"
  /\ Outcome(ok) /\ CountFail(ok)
  /\ IF ok
       THEN /\ tasks' = Moved(T, [T EXCEPT !.pc = "allC", !.lt = MapThoughts(get_all_thoughts)])
            /\ UnchangedStore
       ELSE LoadFailed(T)
  /\ UNCHANGED <<lastVersionRef, nPolls, nMoves>>
  /\ UNCHANGED <<dbVars, frameVars, addVars, actVars, overlayVars>>

\* get_all_connections returns or fails
AllConnectionsStep(T, ok) ==
  /\ T \in InFlight /\ T.pc = "allC"
  /\ Outcome(ok) /\ CountFail(ok)
  /\ IF ok
       THEN /\ tasks' = Moved(T, [T EXCEPT !.pc = "allCl", !.lc = MapConnections(get_all_connections)])
            /\ UnchangedStore
       ELSE LoadFailed(T)
  /\ UNCHANGED <<lastVersionRef, nPolls, nMoves>>
  /\ UNCHANGED <<dbVars, frameVars, addVars, actVars, overlayVars>>

NSeedThoughts == Len(demoThoughtSeq)
NSeedSteps == Len(demoThoughtSeq) + Len(demoConnectionSeq)

\* get_all_clusters returns or fails (then clusters = []); the snapshot is set;
\* an empty result starts the seeding at its first add_thought
ClustersStep(T, ok) ==
  LET lcl == IF ok THEN MapClusters(get_all_clusters) ELSE {}
      T1 == [T EXCEPT !.failed = @ \/ ~ok, !.sets = @ + 1]
  IN
  /\ T \in InFlight /\ T.pc = "allCl"
  /\ Outcome(ok) /\ CountFail(ok)
  /\ SetFull(T.lt, T.lc, lcl, T.totalCount) /\ lastIssue' = T.issued
  /\ tasks' = IF ThoughtCount(T.lt) = 0
                THEN Moved(T, [T1 EXCEPT !.pc = "seed", !.i = 0])
                ELSE Ended(T)
  /\ UNCHANGED <<lastVersionRef, nPolls, nMoves>>
  /\ UNCHANGED <<dbVars, frameVars, addVars, actVars, overlayVars>>

\* the i-th add_thought / add_connection of the seeding returns or fails; after
\* the last one the snapshot is set to the demo data
SeedStep(T, ok) ==
  /\ T \in InFlight /\ T.pc = "seed"
  /\ Outcome(ok) /\ CountFail(ok)
  /\ IF ok
       THEN /\ IF T.i < NSeedThoughts
                 THEN add_thought(demoThoughtSeq[T.i + 1]) /\ UNCHANGED dbConns
                 ELSE add_connection(demoConnectionSeq[T.i + 1 - NSeedThoughts]) /\ UNCHANGED dbThoughts
            /\ IF T.i + 1 = NSeedSteps
                 THEN /\ SetDemo("seeded") /\ lastIssue' = T.issued
                      /\ tasks' = Ended(T)
                 ELSE /\ tasks' = Moved(T, [T EXCEPT !.i = @ + 1])
                      /\ UnchangedStore
       ELSE /\ LoadFailed(T)
            /\ UNCHANGED <<dbThoughts, dbConns>>
  /\ UNCHANGED <<lastVersionRef, nPolls, nMoves, nWrites>>
  /\ UNCHANGED <<frameVars, addVars, actVars, overlayVars>>

\* --------------------------------------------------- loadNearCamera
\* loadNearCamera resolves: checkForUpdates ends; MindSpace's finally clears
\* spatialLoadPending
ResolveNear(T) ==
  /\ tasks' = Ended(T)
  /\ spatialLoadPending' = IF T.kind = "move" THEN FALSE ELSE spatialLoadPending
  /\ UNCHANGED <<camZ, lastSpatialPos, spatialCooldown>>

\* loadNearCamera rejects: checkForUpdates catches and calls loadFromDatabase;
\* MindSpace's finally clears spatialLoadPending
RejectNear(T) ==
  IF T.kind = "move"
    THEN /\ tasks' = Ended(T)
         /\ spatialLoadPending' = FALSE
         /\ UNCHANGED <<camZ, lastSpatialPos, spatialCooldown>>
    ELSE /\ tasks' = Moved(T, CallLoadFromDatabase([T EXCEPT !.inCatch = TRUE, !.issued = nPolls + nMoves]))
         /\ UNCHANGED frameVars

\* get_thoughts_near returns or fails; with no thought returned the snapshot
\* is set at once
NearStep(T, ok) ==
  /\ T \in InFlight /\ T.pc = "near"
  /\ Outcome(ok) /\ CountFail(ok)
  /\ IF ok
       THEN \E rustThoughts \in get_thoughts_near(T.z, T.radius, T.limit) :
              LET lt == MapThoughts(rustThoughts) IN
              IF ThoughtCount(lt) > 0
                THEN /\ tasks' = Moved(T, [T EXCEPT !.pc = "nconns", !.lt = lt])
                     /\ UnchangedStore
                     /\ UNCHANGED frameVars
                ELSE /\ SetWindowed(lt, {}) /\ lastIssue' = T.issued
                     /\ ResolveNear(T)
       ELSE /\ tasks' = Moved(T, [T EXCEPT !.pc = "fbT", !.failed = TRUE, !.lt = EmptyThoughts])
            /\ UnchangedStore
            /\ UNCHANGED frameVars
  /\ UNCHANGED <<lastVersionRef, nPolls, nMoves>>
  /\ UNCHANGED <<dbVars, addVars, actVars, overlayVars>>

\* get_connections_for_thoughts returns or fails
NearConnectionsStep(T, ok) ==
  /\ T \in InFlight /\ T.pc = "nconns"
  /\ Outcome(ok) /\ CountFail(ok)
  /\ IF ok
       THEN /\ SetWindowed(T.lt, MapConnections(get_connections_for_thoughts(T.lt.named))) /\ lastIssue' = T.issued
            /\ ResolveNear(T)
       ELSE /\ tasks' = Moved(T, [T EXCEPT !.pc = "fbT", !.failed = TRUE, !.lt = EmptyThoughts])
            /\ UnchangedStore
            /\ UNCHANGED frameVars
  /\ UNCHANGED <<lastVersionRef, nPolls, nMoves>>
  /\ UNCHANGED <<dbVars, addVars, actVars, overlayVars>>

\* the fallback's get_all_thoughts returns or fails
FallbackThoughtsStep(T, ok) ==
  /\ T \in InFlight /\ T.pc = "fbT"
  /\ Outcome(ok) /\ CountFail(ok)
  /\ IF ok
       THEN /\ tasks' = Moved(T, [T EXCEPT !.pc = "fbC", !.lt = MapThoughts(get_all_thoughts)])
            /\ UNCHANGED frameVars
       ELSE RejectNear(T)
  /\ UnchangedStore
  /\ UNCHANGED <<lastVersionRef, nPolls, nMoves>>
  /\ UNCHANGED <<dbVars, addVars, actVars, overlayVars>>

\* the fallback's get_all_connections returns or fails
FallbackConnectionsStep(T, ok) ==
  /\ T \in InFlight /\ T.pc = "fbC"
  /\ Outcome(ok) /\ CountFail(ok)
  /\ IF ok
       THEN /\ SetFallback(T.lt, MapConnections(get_all_connections)) /\ lastIssue' = T.issued
            /\ ResolveNear(T)
       ELSE /\ RejectNear(T)
            /\ UnchangedStore
  /\ UNCHANGED <<lastVersionRef, nPolls, nMoves>>
  /\ UNCHANGED <<dbVars, addVars, actVars, overlayVars>>

\* ---------------------------------------- MindSpace: spatial pagination
CooldownTicks == SPATIAL_RELOAD_COOLDOWN * TicksPerSecond

SpatialReloadDue_Unguarded(dist, cooldown, pending) ==
  dist > SPATIAL_MOVE_THRESHOLD /\ cooldown <= 0

\* dist > SPATIAL_MOVE_THRESHOLD && spatialCooldown.current <= 0 && !spatialLoadPending.current
SpatialReloadDue(dist, cooldown, pending) ==
  dist > SPATIAL_MOVE_THRESHOLD /\ cooldown <= 0 /\ ~pending

\* One frame, with the camera at z, one tick after the last: the dream tick
\* (on the thoughts the model names) and the timeline tick of the useFrame
\* callback, then its spatial pagination.  The cooldown, tested only against
\* 0, is not counted below 0.
Frame(z) ==
  LET cooldown == Max(spatialCooldown - 1, 0)
      dist == Abs(lastSpatialPos - z)
  IN
  /\ camZ' = z
  /\ IF dreamActive
       THEN tickDream(thoughts.named)
       ELSE UNCHANGED <<dreamVars, timers>>
  /\ IF timelineActive
       THEN tickTimeline(FrameDelta)
       ELSE UNCHANGED timelineVars
  /\ IF useSpatialLoading
       THEN IF SpatialReloadDue(dist, cooldown, spatialLoadPending)
              THEN /\ CanStart /\ nMoves < MaxMoves
                   /\ spatialLoadPending' = TRUE
                   /\ spatialCooldown' = CooldownTicks
                   /\ lastSpatialPos' = z
                   /\ nMoves' = nMoves + 1
                   /\ tasks' = Started(CallLoadNearCamera(NewTask("move"), z))
              ELSE /\ spatialCooldown' = cooldown
                   /\ UNCHANGED <<spatialLoadPending, lastSpatialPos, nMoves, tasks>>
       ELSE UNCHANGED <<spatialLoadPending, spatialCooldown, lastSpatialPos, nMoves, tasks>>
  /\ UNCHANGED <<lastVersionRef, nPolls, nFails>>
  /\ UnchangedStore
  /\ UNCHANGED <<dbVars, addVars, actVars, thinkVars, nCalls>>

\* the connections given to the render: all of them outside timeline mode
visibleConnections == connections

RenderedConnections_Unfiltered == visibleConnections

\* the connections drawn: those whose two thoughts are found in the snapshot
RenderedConnections ==
  {connection \in visibleConnections :
     /\ \E t \in thoughts.named : t = connection.fromThought
     /\ \E t \in thoughts.named : t = connection.toThought}

\* ------------------------------------------ optimistic store updates
ConnectedThoughts(id) ==
  {IF c.fromThought = id THEN c.toThought ELSE c.fromThought :
     c \in {d \in connections : d.fromThought = id \/ d.toThought = id}}

\* [...connectedToNew].sort((a, b) => b.strength - a.strength): a stable sort,
\* strongest first
RECURSIVE InsertByStrength(_, _)
InsertByStrength(sorted, c) ==
  IF sorted = <<>> THEN <<c>>
  ELSE IF Head(sorted).strength >= c.strength
    THEN <<Head(sorted)>> \o InsertByStrength(Tail(sorted), c)
    ELSE <<c>> \o sorted

RECURSIVE SortByStrength(_)
SortByStrength(q) ==
  IF q = <<>> THEN <<>>
  ELSE InsertByStrength(SortByStrength(SubSeq(q, 1, Len(q) - 1)), q[Len(q)])

maxPathLength == 4

\* the loop of findReasoningPath from index i on
RECURSIVE PathFrom(_, _, _, _, _)
PathFrom(path, sortedConnections, newThoughtId, ths, i) ==
  IF i >= Min(Len(sortedConnections), maxPathLength - 1) THEN path
  ELSE LET conn == sortedConnections[i + 1]
           connectedId == IF conn.fromThought = newThoughtId THEN conn.toThought ELSE conn.fromThought
       IN PathFrom(IF connectedId \in ths /\ connectedId \notin SeqRange(path)
                     THEN Append(path, connectedId) ELSE path,
                   sortedConnections, newThoughtId, ths, i + 1)

\* a variant that takes the weakest connections first
findReasoningPath_WeakestFirst(newThoughtId, ths, conns) ==
  LET Touches(c) == c.toThought = newThoughtId \/ c.fromThought = newThoughtId
      connectedToNew == SelectSeq(conns, Touches)
      sorted == SortByStrength(connectedToNew)
      reversed == [k \in 1..Len(sorted) |-> sorted[Len(sorted) + 1 - k]]
  IN IF Len(connectedToNew) = 0 THEN <<newThoughtId>>
     ELSE Append(PathFrom(<<>>, reversed, newThoughtId, ths, 0), newThoughtId)

\* a variant that takes up to maxPathLength connected thoughts
findReasoningPath_FourConnected(newThoughtId, ths, conns) ==
  LET Touches(c) == c.toThought = newThoughtId \/ c.fromThought = newThoughtId
      connectedToNew == SelectSeq(conns, Touches)
      sorted == SortByStrength(connectedToNew)
      ids == [k \in 1..Min(Len(sorted), maxPathLength) |->
                IF sorted[k].fromThought = newThoughtId THEN sorted[k].toThought
                ELSE sorted[k].fromThought]
  IN IF Len(connectedToNew) = 0 THEN <<newThoughtId>>
     ELSE Append(ids, newThoughtId)

\* findReasoningPath(newThoughtId, thoughts, connections): ths the ids of the
\* thoughts, conns the connections in the order of the array
findReasoningPath(newThoughtId, ths, conns) ==
  LET Touches(c) == c.toThought = newThoughtId \/ c.fromThought = newThoughtId
      connectedToNew == SelectSeq(conns, Touches)
      sortedConnections == SortByStrength(connectedToNew)
  IN IF Len(connectedToNew) = 0 THEN <<newThoughtId>>
     ELSE Append(PathFrom(<<>>, sortedConnections, newThoughtId, ths, 0), newThoughtId)

\* the connections of the store that touch id
ConnectionsOf(id) == {c \in connections : c.fromThought = id \/ c.toThought = id}

\* addThought(thought) up to its await: the reasoning path is derived and,
\* when it has more than one thought, started; the new thought and the
\* thoughts connected to it are activated; the thought is appended
AddThought(id) ==
  /\ nAdds < MaxAdds
  /\ nAdds' = nAdds + 1
  /\ \E conns \in Orders(ConnectionsOf(id)) :
       LET connectedIds == findReasoningPath(id, thoughts.named, conns) IN
       IF Len(connectedIds) > 1
         THEN startThinking(connectedIds, id)
         ELSE UNCHANGED <<thinkVars, timers>>
  /\ UNCHANGED nCalls
  /\ \E connectedThoughts \in Orders(ConnectedThoughts(id)) :
       /\ activations' =
            IF Len(connectedThoughts) > 0
              THEN activateNodes(activateNode(activations, id, 100), connectedThoughts, 60)
              ELSE activateNode(activations, id, 100)
       /\ origin' = [k \in AllIds |->
            IF k \in SeqRange(connectedThoughts) THEN NoOrigin
            ELSE IF k = id THEN [set |-> TRUE, t0 |-> now, x |-> 100]
            ELSE origin[k]]
  /\ thoughts' = IF id \in thoughts.named
                   THEN [thoughts EXCEPT !.filler = @ + 1]
                   ELSE [thoughts EXCEPT !.named = @ \cup {id}]
  /\ lastWrite' = "addThought"
  /\ UNCHANGED lastIssue
  /\ written' = {"thoughts"}
  /\ persist' = persist \cup {[cmd |-> "add_thought", id |-> id, conn |-> UserConn]}
  /\ UNCHANGED <<connections, clusters, useSpatialLoading, totalThoughtCount>>
  /\ UNCHANGED <<now, nActs>>
  /\ UNCHANGED <<dbVars, syncVars, frameVars, timelineVars, dreamVars>>

\* addConnection(connection) up to its await: both ends are activated, the
\* connection is appended
AddConnection(c) ==
  /\ nAdds < MaxAdds
  /\ nAdds' = nAdds + 1
  /\ activations' = activateNodes(activations, <<c.fromThought, c.toThought>>, 80)
  /\ origin' = [k \in AllIds |-> IF k \in {c.fromThought, c.toThought} THEN NoOrigin ELSE origin[k]]
  /\ connections' = connections \cup {c}
  /\ persist' = persist \cup {[cmd |-> "add_connection", id |-> 0, conn |-> c]}
  /\ UNCHANGED <<thoughts, clusters, useSpatialLoading, totalThoughtCount, lastWrite, lastIssue>>
  /\ written' = {"connections"}
  /\ UNCHANGED <<now, nActs>>
  /\ UNCHANGED <<dbVars, syncVars, frameVars, overlayVars>>

\* the add_thought / add_connection of addThought / addConnection returns or
\* fails (the failure is logged)
PersistStep(op, ok) ==
  /\ op \in persist
  /\ Outcome(ok) /\ CountFail(ok)
  /\ persist' = persist \ {op}
  /\ IF ok
       THEN IF op.cmd = "add_thought"
              THEN add_thought(op.id) /\ UNCHANGED dbConns
              ELSE add_connection(op.conn) /\ UNCHANGED dbThoughts
       ELSE UNCHANGED <<dbThoughts, dbConns>>
  /\ UNCHANGED <<nWrites, nAdds, lastVersionRef, tasks, nPolls, nMoves>>
  /\ UnchangedStore
  /\ UNCHANGED <<frameVars, actVars, overlayVars>>

\* ------------------------------------------------- the external writer
BulkSize == SPATIAL_THRESHOLD - 1

\* mind_log: one more thought row
ExtLog ==
  /\ nWrites < MaxWrites
  /\ dbThoughts' = [dbThoughts EXCEPT !.filler = @ + 1]
  /\ nWrites' = nWrites + 1
  /\ UNCHANGED dbConns
  /\ UNCHANGED <<storeVars, syncVars, lastWrite, lastIssue, frameVars, addVars, actVars, overlayVars>> /\ NoSet

\* mind_connect: between two existing thoughts
ExtConnect ==
  /\ nWrites < MaxWrites
  /\ UserConn \notin dbConns
  /\ {UserConn.fromThought, UserConn.toThought} \subseteq dbThoughts.named
  /\ add_connection(UserConn)
  /\ nWrites' = nWrites + 1
  /\ UNCHANGED dbThoughts
  /\ UNCHANGED <<storeVars, syncVars, lastWrite, lastIssue, frameVars, addVars, actVars, overlayVars>> /\ NoSet

\* a thought row is deleted, with the connections that touch it
ExtDelete(id) ==
  /\ nWrites < MaxWrites
  /\ id \in dbThoughts.named
  /\ dbThoughts' = [dbThoughts EXCEPT !.named = @ \ {id}]
  /\ dbConns' = {c \in dbConns : c.fromThought # id /\ c.toThought # id}
  /\ nWrites' = nWrites + 1
  /\ UNCHANGED <<storeVars, syncVars, lastWrite, lastIssue, frameVars, addVars, actVars, overlayVars>> /\ NoSet

\* ---------------------------------------------------------------- Init
InitialDbs ==
  {[t |-> EmptyThoughts, c |-> {}],
   [t |-> [named |-> UserIds, filler |-> BulkSize - 1], c |-> {}],
   [t |-> [named |-> UserIds, filler |-> BulkSize], c |-> {UserConn}]}

InitStore ==
  /\ thoughts = EmptyThoughts
  /\ connections = {}
  /\ clusters = {}
  /\ useSpatialLoading = FALSE
  /\ totalThoughtCount = 0
  /\ written = {}
  /\ lastWrite = "init"
  /\ lastIssue = 0

\* the refs, the in-flight work and the overlay stores of an application
\* constructed at time t
InitAt(t) ==
  /\ nWrites = 0
  /\ lastVersionRef = Version(InitialMaxId, InitialMaxId)
  /\ tasks = EmptyBag
  /\ nPolls = 0
  /\ nMoves = 0
  /\ nFails = 0
  /\ camZ = InitialCameraZ
  /\ lastSpatialPos = InitialSpatialPos
  /\ spatialCooldown = 0
  /\ spatialLoadPending = FALSE
  /\ persist = {}
  /\ nAdds = 0
  /\ activations = [id \in AllIds |-> NoActivation]
  /\ now = t
  /\ origin = [id \in AllIds |-> NoOrigin]
  /\ nActs = 0
  /\ activePath = <<>>
  /\ pathProgress = 0
  /\ isThinking = FALSE
  /\ synthesisId = NoThought
  /\ thinkingStartTime = NullTime
  /\ traversalSpeed = DefaultTraversalSpeed
  /\ nCalls = 0
  /\ timers = EmptyBag
  /\ timelineActive = FALSE
  /\ currentTime = FracOf(t)
  /\ startTime = t
  /\ endTime = t
  /\ isPlaying = FALSE
  /\ playbackSpeed = DefaultPlaybackSpeed
  /\ dreamActive = FALSE
  /\ dreamIntensity = "calm"
  /\ lastSparkTime = 0
  /\ activeSparkIds = <<>>

InitRest == InitAt(0)

Init ==
  /\ \E db \in InitialDbs : dbThoughts = db.t /\ dbConns = db.c
  /\ InitStore
  /\ InitRest

InitAdd ==
  /\ \E db \in InitialDbs : ThoughtCount(db.t) > 0 /\ dbThoughts = db.t /\ dbConns = db.c
  /\ InitStore
  /\ InitRest

InitAct ==
  /\ dbThoughts = EmptyThoughts /\ dbConns = {}
  /\ InitStore
  /\ InitRest

\* polling, loading, camera movement and the external writer
Next ==
  \/ StartPoll
  \/ \E T \in InFlight, ok \in BOOLEAN : VersionStep(T, ok)
  \/ \E T \in InFlight, ok \in BOOLEAN : CountStep(T, ok)
  \/ \E T \in InFlight, ok \in BOOLEAN : AllThoughtsStep(T, ok)
  \/ \E T \in InFlight, ok \in BOOLEAN : AllConnectionsStep(T, ok)
  \/ \E T \in InFlight, ok \in BOOLEAN : ClustersStep(T, ok)
  \/ \E T \in InFlight, ok \in BOOLEAN : SeedStep(T, ok)
  \/ \E T \in InFlight, ok \in BOOLEAN : NearStep(T, ok)
  \/ \E T \in InFlight, ok \in BOOLEAN : NearConnectionsStep(T, ok)
  \/ \E T \in InFlight, ok \in BOOLEAN : FallbackThoughtsStep(T, ok)
  \/ \E T \in InFlight, ok \in BOOLEAN : FallbackConnectionsStep(T, ok)
  \/ \E z \in CamPositions : Frame(z)
  \/ ExtLog
  \/ ExtConnect
  \/ \E id \in UserIds : ExtDelete(id)

Spec == Init /\ [][Next]_vars

\* polling and loading with the optimistic updates of the store
NextAdd ==
  \/ StartPoll
  \/ \E T \in InFlight : VersionStep(T, TRUE)
  \/ \E T \in InFlight : CountStep(T, TRUE)
  \/ \E T \in InFlight : AllThoughtsStep(T, TRUE)
  \/ \E T \in InFlight : AllConnectionsStep(T, TRUE)
  \/ \E T \in InFlight : ClustersStep(T, TRUE)
  \/ \E T \in InFlight, ok \in BOOLEAN : NearStep(T, ok)
  \/ \E T \in InFlight, ok \in BOOLEAN : NearConnectionsStep(T, ok)
  \/ \E T \in InFlight, ok \in BOOLEAN : FallbackThoughtsStep(T, ok)
  \/ \E T \in InFlight, ok \in BOOLEAN : FallbackConnectionsStep(T, ok)
  \/ \E z \in CamPositions : Frame(z)
  \/ \E id \in NewIds : AddThought(id)
  \/ AddConnection(NewConn)
  \/ \E op \in persist, ok \in BOOLEAN : PersistStep(op, ok)

SpecAdd == InitAdd /\ [][NextAdd]_vars

\* handleEnter: the timeline is entered with the thoughts of the snapshot
handleEnter == EnterTimeline(CreatedTimes(thoughts))

\* polling, loading and optimistic updates while the timeline is switched on
\* and off
NextAddTimeline ==
  \/ NextAdd
  \/ handleEnter
  \/ ExitTimeline

SpecAddTimeline == InitAdd /\ [][NextAddTimeline]_vars

\* the connections a new thought is tried with: to thoughts 1, 2, 3 and 6 with
\* distinct and with equal strengths, a second one to thought 1, one of the
\* new thought to itself, one between two other thoughts
PathPool ==
  {ConnS("p1", 1, NewId, 90), ConnS("p2", NewId, 2, 30), ConnS("p3", 3, NewId, 60),
   ConnS("p4", NewId, NearId, 30), ConnS("p5", 1, NewId, 50), ConnS("p6", NewId, NewId, 70),
   ConnS("p7", 1, 2, 80)}
PathThoughts == {{1, 2, 3, NearId}, {1, 2}, {1, 2, 3, NearId, NewId}}

\* addThought on every snapshot of thoughts and connections of the pool
InitPath ==
  /\ dbThoughts = EmptyThoughts /\ dbConns = {}
  /\ \E ths \in PathThoughts : thoughts = [named |-> ths, filler |-> 0]
  /\ \E cs \in SUBSET PathPool : Cardinality(cs) <= MaxConns /\ connections = cs
  /\ clusters = {}
  /\ useSpatialLoading = FALSE
  /\ totalThoughtCount = 0
  /\ written = {}
  /\ lastWrite = "init"
  /\ lastIssue = 0
  /\ InitRest

NextPath ==
  \/ \E id \in NewIds : AddThought(id)
  \/ \E op \in persist, ok \in BOOLEAN : PersistStep(op, ok)
  \/ \E t \in Pending : AdvanceFires(t)
  \/ \E t \in Pending : SettleFires(t)
  \/ \E t \in Pending : Advance(t.due - now)

SpecPath == InitPath /\ [][NextPath]_vars

\* the timeline store of an application constructed at 4000, over the demo
\* snapshot
TimelineStart == 4000

InitTimeline ==
  /\ dbThoughts = EmptyThoughts /\ dbConns = {}
  /\ InitStore
  /\ InitAt(TimelineStart)

NextTimeline ==
  \/ \E times \in TimelineInputs : EnterTimeline(times)
  \/ ExitTimeline
  \/ \E time \in TimesSet : SetCurrentTime(time)
  \/ \E speed \in PlaybackSpeeds : SetPlaybackSpeed(speed)
  \/ Play
  \/ Pause
  \/ TogglePlayback
  \/ \E progress \in Progresses : SetProgress(progress)
  \/ \E z \in CamPositions : Frame(z)
  \/ Advance(MaxTime - TimelineStart)

SpecTimeline == InitTimeline /\ [][NextTimeline]_vars

\* the render loop goes on calling its frame callback
SpecTimelineLive == SpecTimeline /\ WF_vars(\E z \in CamPositions : Frame(z))

\* the four overlay stores over a loaded snapshot of two thoughts
InitOverlay ==
  /\ dbThoughts = [named |-> {1, 2}, filler |-> 0] /\ dbConns = {Conn("c1", 1, 2)}
  /\ thoughts = MapThoughts(dbThoughts)
  /\ connections = MapConnections(dbConns)
  /\ clusters = MapClusters(get_all_clusters)
  /\ useSpatialLoading = FALSE
  /\ totalThoughtCount = ThoughtCount(dbThoughts)
  /\ written = {}
  /\ lastWrite = "loadFromDatabase"
  /\ lastIssue = 0
  /\ InitAt(0)

NextOverlay ==
  \/ ActivateNode(1, 100)
  \/ ActivateNodes(<<1, 2>>, 100)
  \/ SetProximityActivation(1, 10)
  \/ Tick
  \/ StartThinking(<<1, 2>>, 2)
  \/ \E t \in Pending : AdvanceFires(t)
  \/ \E t \in Pending : SettleFires(t)
  \/ AdvancePath
  \/ StopThinking
  \/ SetTraversalSpeed(10)
  \/ EnterTimeline({1000, 5000})
  \/ ExitTimeline
  \/ SetCurrentTime(3000)
  \/ SetPlaybackSpeed(2000)
  \/ Play
  \/ Pause
  \/ TogglePlayback
  \/ SetProgress(Frac(1, 2))
  \/ \E i \in DreamIntensities : EnterDream(i)
  \/ ExitDream
  \/ \E i \in DreamIntensities : SetIntensity(i)
  \/ \E t \in Pending, x \in NightmareIntensities \cup ModerateIntensities : SparkFires(t, x)
  \/ Frame(PollCenterZ)
  \/ \E t \in Pending : Advance(t.due - now)
  \/ Advance(MaxTime)

SpecOverlay == InitOverlay /\ [][NextOverlay]_vars

\* the dream store over a snapshot that polls reload while another writer
\* deletes rows; the clock runs to the next spark, or once far on, with room
\* left for the staggered sparks of a batch
DreamWait == MaxTime - 3 * SparkStagger

InitDream ==
  /\ dbThoughts = [named |-> UserIds, filler |-> 0] /\ dbConns = {}
  /\ InitStore
  /\ InitRest

NextDream ==
  \/ StartPoll
  \/ \E T \in InFlight : VersionStep(T, TRUE)
  \/ \E T \in InFlight : CountStep(T, TRUE)
  \/ \E T \in InFlight : AllThoughtsStep(T, TRUE)
  \/ \E T \in InFlight : AllConnectionsStep(T, TRUE)
  \/ \E T \in InFlight : ClustersStep(T, TRUE)
  \/ \E id \in UserIds : ExtDelete(id)
  \/ \E i \in DreamIntensities : EnterDream(i)
  \/ ExitDream
  \/ \E t \in Pending, x \in NightmareIntensities \cup ModerateIntensities : SparkFires(t, x)
  \/ Frame(PollCenterZ)
  \/ \E t \in Pending : Advance(t.due - now)
  \/ Advance(DreamWait)

SpecDream == InitDream /\ [][NextDream]_vars

\* the thinking store and its callbacks under a clock that runs from one
\* callback to the next
NextThink ==
  \/ \E pathIds \in ThinkPaths :
       \E synthesis \in {NoThought, 2, pathIds[Len(pathIds)]} : StartThinking(pathIds, synthesis)
  \/ \E t \in Pending : AdvanceFires(t)
  \/ \E t \in Pending : SettleFires(t)
  \/ AdvancePath
  \/ StopThinking
  \/ \E speed \in Speeds : SetTraversalSpeed(speed)
  \/ \E t \in Pending : Advance(t.due - now)

SpecThink == InitAct /\ [][NextThink]_vars

\* the activation store under a clock
NextAct ==
  \/ \E id \in ActIds, x \in Intensities : ActivateNode(id, x)
  \/ \E x \in Intensities : ActivateNodes(<<1, 2>>, x)
  \/ \E id \in ActIds, d \in Distances : SetProximityActivation(id, d)
  \/ Tick
  \/ \E d \in ClockSteps : Advance(d)

SpecAct == InitAct /\ [][NextAct]_vars

\* ------------------------------------------------------------ properties
\* the number of invocations in flight that satisfy P
NumTasks(P(_)) ==
  LET S == {T \in InFlight : P(T)} IN
    IF S = {} THEN 0 ELSE BagCardinality([T \in S |-> tasks[T]])

AwaitsVersion(T) == T.pc = "ver"
RunsLoad(T) == T.pc # "ver"
AtCount(T) == T.pc = "count"
FetchesAll(T) == T.pc = "allT"
AtClusters(T) == T.pc = "allCl"
AcceptedReload(T) == T.kind = "poll" /\ T.accepted
IsMove(T) == T.kind = "move"

\* a step in which get_db_version returns a token to a poll
TokenReturned ==
  /\ NumTasks(AwaitsVersion)' = NumTasks(AwaitsVersion) - 1
  /\ nFails' = nFails

\* the poll of this step calls loadFromDatabase or loadNearCamera
ReloadTriggered == NumTasks(RunsLoad)' = NumTasks(RunsLoad) + 1

C2_FailureKeepsSnapshot ==
  [][(nFails' = nFails + 1 /\ NumTasks(AtClusters)' = NumTasks(AtClusters))
       => (thoughts' = thoughts /\ connections' = connections)]_vars

C4_WindowedSnapshotBounded ==
  useSpatialLoading =>
    /\ \A T \in InFlight : T.pc = "near" => T.radius = 80 /\ T.limit = 300
    /\ ThoughtCount(thoughts) <= 300

\* C5: when get_thought_count returns a count to loadFromDatabase, a count
\* <= 500 goes on to fetch the whole graph and leaves the mode as it is, a
\* count > 500 sets useSpatialLoading and the total count and fetches nothing.
C5_ModeDecision ==
  [][(NumTasks(AtCount)' = NumTasks(AtCount) - 1 /\ nFails' = nFails) =>
       IF get_thought_count <= 500
         THEN /\ NumTasks(FetchesAll)' = NumTasks(FetchesAll) + 1
              /\ written' = {}
         ELSE /\ useSpatialLoading' /\ totalThoughtCount' = get_thought_count
              /\ NumTasks(FetchesAll)' = NumTasks(FetchesAll)
              /\ NumInFlight' = NumInFlight - 1]_vars

\* both decisions taken: a full load of exactly 500 thoughts, then windowed
\* mode at 501
C5_Witness ==
  /\ useSpatialLoading
  /\ totalThoughtCount = 501
  /\ lastWrite = "full"
  /\ ThoughtCount(thoughts) = 500

\* C6 as stated: a step in which a successful load replaces the thoughts of
\* the snapshot sets all five fields of the snapshot.
C6_LoadReplacesAllFields ==
  ("thoughts" \in written /\ lastWrite \in {"full", "windowed", "fallback"})
    => written = Fields

\* C7 as stated: a poll that accepted a token and saw no call fail has, when it
\* ends, performed exactly one load that replaced thoughts and connections.
C7_AcceptedPollLoadsOnce ==
  [][\A T \in InFlight :
       (T.kind = "poll" /\ T.accepted /\ ~T.failed /\ nFails' = nFails /\ tasks' = Ended(T))
         => T.sets + (IF "thoughts" \in written' /\ T.pc # "seed" THEN 1 ELSE 0) = 1]_vars

\* C8 as stated: no token is accepted while the reload of a previously
\* accepted token is outstanding.
C8_NoAcceptDuringReload ==
  [][lastVersionRef' # lastVersionRef => NumTasks(AcceptedReload) = 0]_vars

\* C9: at most one movement-triggered load is in flight, spatialLoadPending is
\* set exactly while one is, and no step taken while it is set starts one.
C9_SingleMoveLoad ==
  /\ [](NumTasks(IsMove) <= 1 /\ (spatialLoadPending <=> NumTasks(IsMove) = 1))
  /\ [][spatialLoadPending => (nMoves' = nMoves /\ NumTasks(IsMove)' <= NumTasks(IsMove))]_vars

\* a movement-triggered load is outstanding, the cooldown has elapsed, and a
\* further load could start but for the flag
C9_Witness ==
  /\ spatialLoadPending
  /\ spatialCooldown = 0
  /\ NumTasks(IsMove) = 1
  /\ nMoves < MaxMoves
  /\ NumInFlight < MaxTasks

\* time since the decay of the record activateNode stored for id began
Elapsed(id) == now - (origin[id].t0 + glowDuration)

\* the value the three regimes give a record not activated again
Regimes ==
  \A id \in AllIds : origin[id].set =>
    LET x == origin[id].x
        el == Elapsed(id) \div 1000
        dur == decayDuration \div 1000
    IN
    /\ Elapsed(id) % 1000 = 0
    /\ now < origin[id].t0 + glowDuration => getActivation(id) = Frac(x, 100)
    /\ (Elapsed(id) >= 0 /\ Elapsed(id) < decayDuration) =>
         getActivation(id) = Frac(x * (dur * dur - el * el), 100 * dur * dur)
    /\ Elapsed(id) >= decayDuration => getActivation(id) = Frac(0, 1)
    /\ (origin[id].t0 = 0 /\ x = 100) =>
         /\ now = 29000 => getActivation(id) = [num |-> 1, den |-> 1]
         /\ now = 60000 => getActivation(id) = [num |-> 3, den |-> 4]
         /\ now = 90000 => getActivation(id) = [num |-> 0, den |-> 1]

\* a step does not raise the value of a record not activated again
NonIncreasing ==
  \A id \in AllIds :
    (origin[id].set /\ origin'[id] = origin[id]) =>
      FracLeq(getActivation(id)', getActivation(id))

\* C10: for a record created by activateNode(id, x) at t0 and not activated
\* again, getActivation(id) is x throughout [t0, t0 + glowDuration), is
\* x * (1 - (elapsed / decayDuration)^2) in the decay, is 0 from
\* decayStartsAt + decayDuration on, and never increases as time passes
\* (x = 1 at t0 = 0: 1 at 29000, 3/4 at 60000, 0 at 90000).
C10_GlowThenDecay == []Regimes /\ [][NonIncreasing]_vars

\* half way through the decay of a record activated with 1.0 at time 0
C10_Witness ==
  /\ origin[1] = [set |-> TRUE, t0 |-> 0, x |-> 100]
  /\ now = 60000
  /\ getActivation(1) = [num |-> 3, den |-> 4]

\* a second activateNode(id, x) on the table a first one left
ActivateTwice(id, x) == activateNode(activateNode(activations, id, x), id, x)

\* the step is activateNode(id, x) on a table whose record for id was stored
\* by activateNode(id, x) at the present clock value
SecondCall(id, x) ==
  /\ origin[id] = [set |-> TRUE, t0 |-> now, x |-> x]
  /\ nActs' = nActs + 1
  /\ origin' = origin
  /\ activations' = activateNode(activations, id, x)

\* C11: activateNode is idempotent at a fixed timestamp: on every table, for
\* every id and intensity x, activateNode(id, x) called twice at one clock
\* value leaves the table that one call leaves, and a second call that follows
\* the first at the same clock value changes nothing.
C11_ActivateNodeIdempotent ==
  /\ [](\A id \in ActIds, x \in Intensities :
         ActivateTwice(id, x) = activateNode(activations, id, x))
  /\ [][\A id \in ActIds, x \in Intensities :
         SecondCall(id, x) => activations' = activations]_vars

\* activateNode(1, 0.4) has stored a record at a clock value past 0 and may be
\* called again at that clock value
C11_Witness ==
  /\ now > 0
  /\ origin[1] = [set |-> TRUE, t0 |-> now, x |-> 40]
  /\ activations[1] = NewActivation(40, now)
  /\ nActs < MaxActs

\* the number of connections of q that touch id
ConnectedCount(q, id) ==
  Cardinality({k \in 1..Len(q) : q[k].toThought = id \/ q[k].fromThought = id})

NoIdTwice(path) == \A j, k \in 1..Len(path) : path[j] = path[k] => j = k

\* the other end of a connection of id
OtherEnd(c, id) == IF c.fromThought = id THEN c.toThought ELSE c.fromThought

\* the existing thoughts the min(n, 3) strongest connections of q lead to
StrongestEnds(q, id) ==
  LET Touches(c) == c.toThought = id \/ c.fromThought = id
      sorted == SortByStrength(SelectSeq(q, Touches))
  IN {OtherEnd(sorted[k], id) : k \in 1..Min(Len(sorted), maxPathLength - 1)} \cap thoughts.named

\* C12 as stated: for every new thought id, thought set and connection set the
\* path of findReasoningPath has length min(connectedCount, maxPathLength) with
\* maxPathLength = 4, ends with the new thought id and contains no id twice.
C12_LengthIsMinCountMax ==
  \A q \in Orders(connections) :
    LET path == findReasoningPath(NewId, thoughts.named, q) IN
    /\ Len(path) = Min(ConnectedCount(q, NewId), maxPathLength)
    /\ path[Len(path)] = NewId
    /\ NoIdTwice(path)

\* C12 amended: the path holds the distinct existing thoughts that the
\* min(connectedCount, maxPathLength - 1) strongest connections lead to,
\* followed by the new thought id: its length is their number plus one (1
\* without connections, at most maxPathLength = 4), it ends with the new
\* thought id, and no id stands in it twice except the new thought's own when
\* the new thought is in the thought set and connected to itself.
C12_PathLength ==
  \A q \in Orders(connections) :
    LET path == findReasoningPath(NewId, thoughts.named, q)
        ends == StrongestEnds(q, NewId)
    IN
    /\ Len(path) = Cardinality(ends) + 1
    /\ Len(path) <= Min(ConnectedCount(q, NewId), maxPathLength - 1) + 1
    /\ Len(path) <= maxPathLength
    /\ path[Len(path)] = NewId
    /\ NoIdTwice(SubSeq(path, 1, Len(path) - 1))
    /\ NoIdTwice(path) <=> NewId \notin ends

\* addThought has started a path of maxPathLength thoughts for a new thought
\* with four connections
C12_Witness ==
  /\ nAdds = 1
  /\ isThinking
  /\ Cardinality(ConnectionsOf(NewId)) = 4
  /\ Len(activePath) = maxPathLength
  /\ activePath[maxPathLength] = NewId

\* the strength of the strongest connection between id and other
StrengthTo(other, id) ==
  LET between == {c \in ConnectionsOf(id) : OtherEnd(c, id) = other}
  IN CHOOSE m \in {c.strength : c \in between} : \A c \in between : c.strength <= m

\* the step is addThought(NewId)
AddsNewThought == nAdds' = nAdds + 1 /\ "thoughts" \in written'

\* connected existing thoughts, strongest first, at most maxPathLength - 1 of
\* them and none weaker left in while a stronger one is left out, then the new
\* thought
AsDescribed(path) ==
  LET n == Len(path) - 1
      listed == {path[k] : k \in 1..n}
      connected == ConnectedThoughts(NewId) \cap thoughts.named
  IN
  /\ n >= 0 /\ n <= maxPathLength - 1
  /\ path[n + 1] = NewId
  /\ listed \subseteq connected
  /\ \A j, k \in 1..n : j < k => StrengthTo(path[j], NewId) >= StrengthTo(path[k], NewId)
  /\ \A a \in listed, b \in connected \ listed :
       StrengthTo(a, NewId) >= StrengthTo(b, NewId)

UnitProgresses == {p \in Progresses : ~FracLess(p, FracOf(0)) /\ ~FracLess(FracOf(1), p)}

\* startTime + p * (endTime - startTime)
Scrubbed(p) == FracPlus(FracTimes(p, endTime - startTime), startTime)

\* C14: timeline progress and scrubbing are inverse: getProgress() is
\* (currentTime - startTime) / (endTime - startTime), and for every p in [0, 1]
\* with endTime > startTime setProgress(p) sets currentTime to
\* startTime + p * (endTime - startTime), after which getProgress() is p
\* (start 1000, end 5000: currentTime 3000 gives 1/2, setProgress(1/4) gives
\* 2000).
C14_ProgressInverse ==
  /\ [](endTime > startTime =>
          /\ Scrubbed(getProgress) = currentTime
          /\ \A p \in UnitProgresses :
               /\ setProgress(p) = Scrubbed(p)
               /\ ProgressAt(setProgress(p)) = p)
  /\ []((startTime = 1000 /\ endTime = 5000) =>
          /\ currentTime = FracOf(3000) => getProgress = Frac(1, 2)
          /\ setProgress(Frac(1, 4)) = FracOf(2000))
  /\ [][\A p \in UnitProgresses :
          (endTime > startTime /\ currentTime' = setProgress(p)
             /\ UNCHANGED <<startTime, endTime>>) => getProgress' = p]_vars

\* a timeline from 1000 to 5000 scrubbed to a third
C14_Witness ==
  /\ timelineActive
  /\ startTime = 1000 /\ endTime = 5000
  /\ currentTime = setProgress(Frac(1, 3))
  /\ currentTime.den = 3
  /\ getProgress = Frac(1, 3)

\* C15: no operation of the overlay stores writes the snapshot: every action
\* of the activation store, the thinking store, the timeline store and the
\* dream store, the dream tick that samples thought ids and the callbacks
\* those actions schedule included, leaves the mind store's thoughts,
\* connections, clusters, windowed flag and total count unchanged.
C15_OverlayKeepsSnapshot == [][UNCHANGED storeVars /\ written' = {}]_vars

\* the dream tick has sampled thoughts of the snapshot and a spark has lit
\* one, while a traversal runs and the timeline is open; the snapshot is the
\* one loaded
C15_Witness ==
  /\ dreamActive /\ activeSparkIds # <<>>
  /\ \E id \in SeqRange(activeSparkIds) :
       /\ id \in thoughts.named
       /\ origin[id].set /\ origin[id].t0 = lastSparkTime
  /\ isThinking /\ activePath # <<>>
  /\ timelineActive
  /\ thoughts = [named |-> {1, 2}, filler |-> 0]
  /\ connections = {Conn("c1", 1, 2)}

\* C16 as stated: a poll whose get_db_version call failed, no other call
\* having failed, has reloaded the graph data from the backing store when it
\* ends, in full mode and in windowed mode alike.
C16_FailedVersionStillReloads ==
  [][\A T \in InFlight :
       (T.kind = "poll" /\ T.inCatch /\ nFails' = 1 /\ tasks' = Ended(T))
         => T.sets + (IF "thoughts" \in written' /\ lastWrite' = "full" THEN 1 ELSE 0) >= 1]_vars

\* the windowed loads the step issues
IssuedNear == {T \in BagToSet(tasks') : T.pc = "near" /\ CopiesIn(T, tasks') > CopiesIn(T, tasks)}

\* C17 as stated: every windowed load issued while the store is in windowed
\* mode, by a poll that detected a change or by a movement of the viewpoint,
\* queries get_thoughts_near centred on the current position of the camera.
C17_WindowedLoadAtCamera ==
  [][useSpatialLoading => \A T \in IssuedNear : T.z = camZ']_vars

\* C18 as stated: once the settle delay after the end of a traversal has
\* passed the reasoning path is cleared; in every state where isThinking is
\* false the path is empty, there is no synthesis thought and getActivation
\* is 0 for every id.
C18_SettledPathIsCleared ==
  ~isThinking =>
    /\ activePath = <<>>
    /\ synthesisId = NoThought
    /\ \A id \in AllIds : getActivationThinking(id) = 0

\* the step is the callback t
Fired(t) == t.due = now /\ CopiesIn(t, timers') < CopiesIn(t, timers)

\* the callback t stems from a startThinking call earlier than the one that
\* started the current traversal
Superseded(t) ==
  /\ t.kind \in {"advance", "settle"}
  /\ thinkingStartTime # NullTime
  /\ t.x # thinkingStartTime

\* C19 as stated: once startThinking has been called anew, no advance timer
\* and no settle timer created for the earlier path changes pathProgress or
\* isThinking.
C19_SupersededTimersInert ==
  [][\A t \in Pending :
       (Fired(t) /\ Superseded(t))
         => (pathProgress' = pathProgress /\ isThinking' = isThinking)]_vars

\* the value at distance d behind the cursor: 1 at the cursor, 0.15 less per
\* position, never under 0.4
Falloff(d) == IF 100 - d * 15 < 40 THEN 40 ELSE 100 - d * 15

\* the cursor is on the last position of the path
AtTerminus == pathProgress >= Len(activePath) - 1

\* C20 as stated: with an active path and the cursor on position k, the
\* thought on position i has the falloff value of its distance k - i when
\* i <= k, which is 1 for the terminus once the cursor is on it, and 0.15
\* when i > k; an id not on the path has 0.
C20_ActivationByPosition ==
  activePath # <<>> =>
    /\ \A j \in 1..Len(activePath) :
         getActivationThinking(activePath[j]) =
           IF j - 1 <= pathProgress THEN Falloff(pathProgress - (j - 1)) ELSE 15
    /\ \A id \in AllIds \ SeqRange(activePath) : getActivationThinking(id) = 0

\* C20: with an active path and the cursor on position k, a thought on
\* position i other than the synthesis thought has the falloff value of its
\* distance k - i when i <= k and 0.15 when i > k; the synthesis thought, on
\* the path, has 0.3 until the cursor is on the last position and 1 from
\* then on; an id not on the path has 0.
C20_Activation ==
  activePath # <<>> =>
    /\ \A j \in 1..Len(activePath) :
         getActivationThinking(activePath[j]) =
           IF activePath[j] = synthesisId THEN (IF AtTerminus THEN 100 ELSE 30)
           ELSE IF j - 1 <= pathProgress THEN Falloff(pathProgress - (j - 1))
           ELSE 15
    /\ \A id \in AllIds \ SeqRange(activePath) : getActivationThinking(id) = 0

\* a traversal whose cursor is five positions past the first thought of its
\* path, which is at the floor, with the synthesis thought still ahead
C20_Witness ==
  /\ isThinking /\ Len(activePath) > 6 /\ pathProgress = 5
  /\ synthesisId = activePath[Len(activePath)]
  /\ getActivationThinking(activePath[1]) = 40
  /\ getActivationThinking(activePath[6]) = 100
  /\ getActivationThinking(synthesisId) = 30

\* the clock of the timeline is within its bounds
ClockInBounds ==
  /\ ~FracLess(currentTime, FracOf(startTime))
  /\ ~FracLess(FracOf(endTime), currentTime)

\* C21 as stated: after any sequence of timeline operations, exitTimeline
\* among them, startTime <= currentTime <= endTime.
C21_ClockAlwaysInBounds == ClockInBounds

\* C21: while the timeline is active, after any sequence of timeline
\* operations, startTime <= currentTime <= endTime.
C21_ActiveClockInBounds == timelineActive => ClockInBounds

\* playback has carried the clock of an active timeline to a time strictly
\* between its bounds that no scrub position of the model gives
C21_Witness ==
  /\ timelineActive /\ isPlaying
  /\ FracLess(FracOf(startTime), currentTime)
  /\ FracLess(currentTime, FracOf(endTime))
  /\ \A p \in Progresses : currentTime # setProgress(p)
  /\ \A time \in TimesSet : currentTime # FracOf(time)

\* the step is a tick of the playing, active timeline
PlaybackTick == timelineActive /\ isPlaying /\ camZ' \in CamPositions /\ nCalls' = nCalls /\ now' = now

\* C22: while the timeline is active and playing, a tick of delta seconds
\* moves currentTime on by delta * 1000 * playbackSpeed, clamped at endTime;
\* no tick leaves isPlaying true with currentTime at endTime, and none stops
\* playback before endTime; under repeated ticks playback does not go on for
\* ever, and once no call of the user interface comes between the ticks it
\* reaches endTime and stops itself there.
C22_PlaybackReachesEnd ==
  /\ [][PlaybackTick =>
          /\ currentTime' = FracMin(FracPlus(currentTime, FrameDelta * playbackSpeed), FracOf(endTime))
          /\ isPlaying' = (currentTime' # FracOf(endTime))]_vars
  /\ (timelineActive /\ isPlaying) ~> ~(timelineActive /\ isPlaying)
  /\ (timelineActive /\ isPlaying /\ nCalls = MaxCalls)
        ~> (timelineActive /\ ~isPlaying /\ currentTime = FracOf(endTime))

\* playback has stopped itself at the end of a timeline it had moved through
\* in more than one tick
C22_Witness ==
  /\ timelineActive /\ ~isPlaying
  /\ currentTime = FracOf(endTime)
  /\ endTime - startTime > FrameDelta * playbackSpeed
  /\ nCalls = 2

\* C23 as stated: whenever timeline mode is active, startTime is the least
\* creation time of the thoughts of the current snapshot and endTime is at
\* least the greatest, also after a reload has replaced the snapshot or
\* addThought has extended it while the timeline is active.
C23_BoundsFollowSnapshot ==
  (timelineActive /\ ThoughtCount(thoughts) > 0) =>
     /\ startTime = SetMin(CreatedTimes(thoughts))
     /\ endTime >= SetMax(CreatedTimes(thoughts))

\* C24 as stated: setProximityActivation raises and never lowers: for every
\* table, id, time and distance d < 20, with boost = (1 - d/20) * 0.3, the
\* value of getActivation(id) right after setProximityActivation(id, d) is at
\* least the greater of boost and the value right before the call.
C24_ProximityRaises ==
  \A id \in ActIds, d \in Distances :
    d < maxProximityDistance =>
      LET after == ValueOf(setProximityActivation(activations, id, d)[id])
          boost == Frac(proximityLevel(d), 100)
      IN FracLeq(boost, after) /\ FracLeq(getActivation(id), after)

\* C25 as stated: the sweep removes exactly the fully decayed records: after
\* tick() at time now the table holds no record with
\* now - decayStartsAt >= decayDuration, and every record with
\* now - decayStartsAt < decayDuration is still there, unchanged.
C25_SweepRemovesDecayed ==
  \A id \in AllIds :
    activations[id].present =>
      IF now - activations[id].decayStartsAt >= decayDuration
        THEN ~tick(activations)[id].present
        ELSE tick(activations)[id] = activations[id]

\* C26 as stated: every thought a load has placed in the snapshot has an
\* importance in [0, 1] and a category of the type, whatever the backing
\* store returned: an importance out of range is clamped and an unknown
\* category is defaulted when the row is taken in.
C26_LoadedThoughtsValid ==
  lastWrite \in {"full", "windowed", "fallback"} =>
    \A t \in LoadedThoughts(thoughts) :
      /\ t.importance >= 0 /\ t.importance <= 100
      /\ t.category \in ThoughtCategory

\* the step is a dream tick that fires a batch of sparks
FiresBatch == BagCardinality(timers') > BagCardinality(timers)

\* C27 as stated: a batch of sparks the dream tick fires consists of exactly
\* min(sparkCount, number of thought ids of the snapshot) pairwise distinct
\* ids, and every activation a spark issues targets an id that is in the
\* snapshot at the moment the activation is applied, also when the snapshot
\* has been replaced or the dream left between the tick and the activation.
C27_SparksTargetSnapshot ==
  [][/\ (dreamActive /\ FiresBatch) =>
          /\ Len(activeSparkIds') = Min(sparkCount, Cardinality(thoughts.named))
          /\ NoIdTwice(activeSparkIds')
          /\ SeqRange(activeSparkIds') \subseteq thoughts.named
     /\ \A t \in Pending :
          (Fired(t) /\ t.kind = "spark") => t.id \in thoughts.named]_vars

\* the step in which the load T sets the thoughts of the snapshot
SetsSnapshot(T) ==
  /\ "thoughts" \in written'
  /\ CopiesIn(T, tasks') < CopiesIn(T, tasks)
  /\ lastIssue' = T.issued
  /\ T.pc \in {"allCl", "near", "nconns", "fbC"}

\* C28 as stated: of two loads outstanding at the same time, the one issued
\* last leaves the snapshot: a load issued earlier never overwrites the
\* snapshot written by a load issued later.
C28_LaterLoadWins ==
  [][\A T \in InFlight : SetsSnapshot(T) => T.issued >= lastIssue]_vars

\* the loads the step issues that begin by reading the thought count
IssuedCount == {T \in BagToSet(tasks') : T.pc = "count" /\ CopiesIn(T, tasks') > CopiesIn(T, tasks)}

\* C29 as stated: as long as no backing-store call fails, windowed mode is
\* sticky: once useSpatialLoading is true it never becomes false again, and
\* every change detected from then on is served by loadNearCamera, without
\* the thought count being read again.
C29_WindowedModeSticky ==
  [][(nFails' = 0 /\ useSpatialLoading) =>
       /\ useSpatialLoading'
       /\ lastVersionRef' # lastVersionRef => (IssuedCount = {} /\ IssuedNear # {})]_vars

\* C30: in every reachable state of the thinking store, whatever the order of
\* startThinking, stopThinking, advancePath and the callbacks of advance and
\* settle timers, those of earlier paths among them, the cursor is a valid
\* index: pathProgress is 0 when activePath is empty and lies in
\* 0 .. length(activePath) - 1 otherwise.
C30_CursorValid ==
  IF activePath = <<>>
    THEN pathProgress = 0
    ELSE pathProgress >= 0 /\ pathProgress <= Len(activePath) - 1

\* the cursor is on the last position of a path that superseded another one
\* whose advance timer is still pending
C30_Witness ==
  /\ isThinking /\ Len(activePath) >= 2
  /\ pathProgress = Len(activePath) - 1
  /\ \E t \in Pending : t.kind = "advance" /\ Superseded(t)
  /\ \E t \in Pending : t.kind = "advance" /\ ~Superseded(t)

====
